---- MODULE Spec2Model ----
(***************************************************************************)
(* classy-slack-notifier: the per-message pipeline of main.handle_message  *)
(* (parse_event -> pre_filter -> skip | force_notify | classify ->         *)
(* threshold -> notify), the rules engine filters.pre_filter and the       *)
(* classifier llm_classifier.classify, and config.load_config with its     *)
(* validation, applied to the document yaml.safe_load returned.            *)
(*                                                                         *)
(* Strings are modelled as sequences of tokens: a message text is a        *)
(* sequence of characters, a keyword pattern is a sequence of characters   *)
(* optionally preceded by the token "regex:", a rule identifier is a       *)
(* sequence such as <<"keyword:", "regex:", "d">>.  A Python call either   *)
(* returns a value or raises: its outcome is [raised, value].              *)
(***************************************************************************)
EXTENDS Integers, Sequences, FiniteSets, TLC

VARIABLES
    seen_events,     \* listener._seen_events: the remembered event identifiers
    channel_cache,   \* listener._channel_cache: channel id -> name
    user_cache,      \* listener._user_cache: user id -> name
    event_id,        \* the identifier of the event being handled, if it has one
    parse_log,       \* what parse_event logged when it dropped the event
    evicted,         \* the identifier this parse_event call pushed out of the deque
    lookups,         \* the platform lookups this parse_event call made
    threads,         \* the parse_event calls running concurrently on the listener
    startup,         \* what main() has called so far, in order
    raw,             \* the document yaml.safe_load returned, or None
    config,          \* the Config built at start-up (main.py:94), or None
    bot_user_id,     \* listener.bot_user_id (main.py:105)
    pc,              \* position of the running handle_message
    msg,             \* the SlackMessage parse_event returned, or None
    result,          \* the FilterResult of pre_filter, or None
    response,        \* the outcome of the HTTP round trip, or None
    classification,  \* the Classification classify returned, or None
    raised,          \* the exception that left handle_message, or NoExc
    notifications,   \* the notify calls of this run, in order
    calls,           \* the collaborators invoked in this run, in order
    http_requests,   \* the requests.post calls of this run
    command          \* the outcome of the notify-send command of this run, or None

\* the state of the SlackListener
listener == <<seen_events, channel_cache, user_cache>>

\* what the parse_event call of the running handle_message did
delivery == <<event_id, parse_log, evicted, lookups>>

vars == <<listener, delivery, threads, startup, raw, config, bot_user_id,
          pc, msg, result, response, classification,
          raised, notifications, command, calls, http_requests>>

-----------------------------------------------------------------------------
(* Bounds of the model *)

\* longest message text, in characters
MaxTextLen == 1
\* longest keyword list of a configuration
MaxKeywords == 2
\* longest keyword list of a configuration document given to load_config
MaxRawKeywords == 1
\* length of the deduplication window, deque(maxlen=1000) in the source
MaxSeen == 1
\* signals delivered to the process in one behaviour
MaxSignals == 2
\* raw urgencies the model answers range over (0 - RawBelow) .. RawAbove
RawBelow == 3
RawAbove == 7

-----------------------------------------------------------------------------
(* Values *)

None == [none |-> TRUE]
NoExc == "none"

SKIP == "skip"
CLASSIFY == "classify"
FORCE_NOTIFY == "force_notify"
FilterAction == {SKIP, CLASSIFY, FORCE_NOTIFY}

\* an event identifier: a string (a token sequence), or None
NoId == [present |-> FALSE, v |-> <<>>]
Id(v) == [present |-> TRUE, v |-> v]

\* no debug line of parse_event
NoLog == "none"

\* an empty dict of names
NoNames == [k \in {} |-> "none"]

Return(v) == [raised |-> NoExc, value |-> v]
Raise(e) == [raised |-> e, value |-> None]

SeqsUpTo(S, n) == UNION {[1..k -> S] : k \in 0..n}

Alphabet == {"d", "D", "x"}

\* str.lower() on one character
LowerChar(c) == IF c = "D" THEN "d" ELSE IF c = "S" THEN "s" ELSE c

\* str.lower()
Lower(s) == [i \in 1..Len(s) |-> LowerChar(s[i])]

Texts == SeqsUpTo(Alphabet, MaxTextLen)

Users == {"U_BOT", "U_ALICE"}
Channels == {"general", "incidents"}

ChannelIdOf(c) == IF c = "general" THEN "C1" ELSE "C2"
DisplayNameOf(u) == IF u = "U_BOT" THEN "bot" ELSE "alice"

\* models.SlackMessage
SlackMessage ==
    {[channel |-> c, channel_id |-> ChannelIdOf(c), sender |-> DisplayNameOf(u),
      sender_id |-> u, text |-> t, thread_ts |-> None,
      is_dm |-> dm, is_mention |-> me, is_bot |-> bo] :
        c \in Channels, u \in Users, t \in Texts,
        dm \in BOOLEAN, me \in BOOLEAN, bo \in BOOLEAN}

RuleKeys == {"self", "bots", "mentions", "dms", "default"}

\* config.DEFAULT_RULES
DEFAULT_RULES ==
    [k \in RuleKeys |->
        CASE k = "self" -> SKIP
          [] k = "bots" -> SKIP
          [] k = "mentions" -> FORCE_NOTIFY
          [] k = "dms" -> FORCE_NOTIFY
          [] OTHER -> CLASSIFY]

\* the rule tables of the model: the defaults with at most one rule overridden
RuleTables == {[DEFAULT_RULES EXCEPT ![k] = a] : k \in RuleKeys, a \in FilterAction}

\* per-channel overrides: a mapping with at most one key
ChannelMaps ==
    {[c \in {} |-> SKIP]}
        \cup {[c \in {ch} |-> a] : ch \in {"incidents"}, a \in FilterAction}

\* keyword patterns: plain substrings and "regex:"-prefixed regular
\* expressions; "(" alone is a regular expression that does not compile
KeywordEntries ==
    {[pattern |-> <<"d">>, action |-> SKIP],
     [pattern |-> <<"d">>, action |-> FORCE_NOTIFY],
     [pattern |-> <<"regex:", "D">>, action |-> CLASSIFY],
     [pattern |-> <<"regex:", ".">>, action |-> FORCE_NOTIFY],
     [pattern |-> <<"regex:", "(">>, action |-> SKIP]}

KeywordLists == SeqsUpTo(KeywordEntries, MaxKeywords)

Thresholds == 1..5

\* config.Config
Config(rules, channels, keywords, threshold) ==
    [rules |-> rules, channels |-> channels, keywords |-> keywords,
     urgency_threshold |-> threshold, ollama_timeout |-> [t |-> "int", v |-> 3],
     notification_timeout |-> 10]


-----------------------------------------------------------------------------
(* filters.py *)

\* models.FilterResult
FilterResult(action, rule) == [action |-> action, rule |-> rule]

\* re.compile: the expression compiles unless it holds an unbalanced "("
RegexCompiles(regex) == \A i \in 1..Len(regex) : regex[i] # "("

\* one atom of a regular expression against one character, re.IGNORECASE
AtomMatches(a, c) == a = "." \/ LowerChar(a) = LowerChar(c)

\* re.search(regex, text, re.IGNORECASE) is not None
RegexSearch(regex, text) ==
    \E i \in 0..(Len(text) - Len(regex)) :
        \A j \in 1..Len(regex) : AtomMatches(regex[j], text[i + j])

\* needle in haystack (str.__contains__)
Contains(needle, haystack) ==
    \E i \in 0..(Len(haystack) - Len(needle)) :
        \A j \in 1..Len(needle) : haystack[i + j] = needle[j]

\* pattern.startswith("regex:")
IsRegexPattern(pattern) == Len(pattern) > 0 /\ Head(pattern) = "regex:"

\* the keyword loop of pre_filter from entry i on: the first matching entry's
\* result, no match, or the re.error of an expression that does not compile
RECURSIVE KeywordScan(_, _, _)
KeywordScan(keywords, text, i) ==
    IF i > Len(keywords)
    THEN [raised |-> NoExc, found |-> FALSE, value |-> None]
    ELSE LET kw == keywords[i]
             pattern == kw.pattern
             hit == [raised |-> NoExc, found |-> TRUE,
                     value |-> FilterResult(kw.action, <<"keyword:">> \o pattern)]
         IN IF IsRegexPattern(pattern)
            THEN LET regex == Tail(pattern)
                 IN IF ~RegexCompiles(regex)
                    THEN [raised |-> "re.error", found |-> FALSE, value |-> None]
                    ELSE IF RegexSearch(regex, text)
                         THEN hit
                         ELSE KeywordScan(keywords, text, i + 1)
            ELSE IF Contains(Lower(pattern), Lower(text))
                 THEN hit
                 ELSE KeywordScan(keywords, text, i + 1)

\* rules 4 to 7 of pre_filter: mentions, dms, channels, default
ContextRules(m, cfg) ==
    IF m.is_mention
    THEN FilterResult(cfg.rules["mentions"], <<"mentions">>)
    ELSE IF m.is_dm
         THEN FilterResult(cfg.rules["dms"], <<"dms">>)
         ELSE IF m.channel \in DOMAIN cfg.channels
              THEN FilterResult(cfg.channels[m.channel], <<"channel:", m.channel>>)
              ELSE FilterResult(cfg.rules["default"], <<"default">>)

\* rules 3 to 7 of pre_filter
KeywordAndContextRules(m, cfg) ==
    LET scan == KeywordScan(cfg.keywords, m.text, 1)
    IN IF scan.raised # NoExc
       THEN Raise(scan.raised)
       ELSE IF scan.found
            THEN Return(scan.value)
            ELSE Return(ContextRules(m, cfg))

\* pre_filter with the bots rule tried before the self rule
pre_filter_bots_first(m, cfg, bot) ==
    IF m.is_bot
    THEN Return(FilterResult(cfg.rules["bots"], <<"bots">>))
    ELSE IF m.sender_id = bot
         THEN Return(FilterResult(cfg.rules["self"], <<"self">>))
         ELSE KeywordAndContextRules(m, cfg)

\* pre_filter with the keyword loop tried before the bots rule
pre_filter_keywords_first(m, cfg, bot) ==
    IF m.sender_id = bot
    THEN Return(FilterResult(cfg.rules["self"], <<"self">>))
    ELSE LET scan == KeywordScan(cfg.keywords, m.text, 1)
         IN IF scan.raised # NoExc
            THEN Raise(scan.raised)
            ELSE IF scan.found
                 THEN Return(scan.value)
                 ELSE IF m.is_bot
                      THEN Return(FilterResult(cfg.rules["bots"], <<"bots">>))
                      ELSE Return(ContextRules(m, cfg))

\* filters.pre_filter
pre_filter(m, cfg, bot) ==
    IF m.sender_id = bot
    THEN Return(FilterResult(cfg.rules["self"], <<"self">>))
    ELSE IF m.is_bot
         THEN Return(FilterResult(cfg.rules["bots"], <<"bots">>))
         ELSE KeywordAndContextRules(m, cfg)

-----------------------------------------------------------------------------
(* llm_classifier.py *)

\* models.Classification
Classification(urgency, reason) == [urgency |-> urgency, reason |-> reason]

\* the exception classes an exception is an instance of (requests.exceptions,
\* json and the builtins)
ClassesOf(exc) ==
    CASE exc = "ConnectionError" -> {"ConnectionError", "RequestException", "OSError"}
      [] exc = "ConnectTimeout" ->
            {"ConnectTimeout", "ConnectionError", "Timeout", "RequestException", "OSError"}
      [] exc = "ReadTimeout" -> {"ReadTimeout", "Timeout", "RequestException", "OSError"}
      [] exc = "ChunkedEncodingError" ->
            {"ChunkedEncodingError", "RequestException", "OSError"}
      [] exc = "HTTPError" -> {"HTTPError", "RequestException", "OSError"}
      [] exc = "JSONDecodeError" -> {"JSONDecodeError", "ValueError"}
      [] exc = "OverflowError" -> {"OverflowError", "ArithmeticError"}
      [] exc = "KeyError" -> {"KeyError", "LookupError"}
      [] exc = "FileNotFoundError" -> {"FileNotFoundError", "OSError"}
      [] OTHER -> {exc}

\* an except clause naming `classes` catches exc
Catches(classes, exc) == ClassesOf(exc) \cap classes # {}

\* what json.loads may find under "urgency": a JSON value, or no such key
RawInts == (0 - RawBelow)..RawAbove
RawUrgencies ==
    {[t |-> "int", v |-> n] : n \in RawInts}
        \cup {[t |-> "float", v |-> 29], [t |-> "float", v |-> -15],
              [t |-> "digits", v |-> 4], [t |-> "text", v |-> 0],
              [t |-> "null", v |-> 0], [t |-> "inf", v |-> 0],
              [t |-> "missing", v |-> 0]}

\* what json.loads may find under "reason"
RawReasons == {"str", "int", "missing"}

\* the shapes of a 2xx response body
BodyShapes ==
    {"not_json", "array", "no_message", "message_not_object", "no_content",
     "content_not_string", "content_not_json", "content_array", "content_object"}

NoUrgency == [t |-> "missing", v |-> 0]

\* the outcomes of the one HTTP round trip: requests.post raises, or a
\* response with a status and a body arrives
Responses ==
    {[exc |-> e, status |-> 0, shape |-> "none", urgency |-> NoUrgency, reason |-> "missing"] :
        e \in {"ConnectionError", "ConnectTimeout", "ReadTimeout", "ChunkedEncodingError"}}
    \cup {[exc |-> NoExc, status |-> 500, shape |-> "not_json",
           urgency |-> NoUrgency, reason |-> "missing"]}
    \cup {[exc |-> NoExc, status |-> 200, shape |-> sh,
           urgency |-> NoUrgency, reason |-> "missing"] :
            sh \in BodyShapes \ {"content_object"}}
    \cup {[exc |-> NoExc, status |-> 200, shape |-> "content_object",
           urgency |-> u, reason |-> r] : u \in RawUrgencies, r \in RawReasons}

\* int(x) on a decoded JSON value; a float is held in tenths and truncates
\* toward zero, a string of digits parses
IntOf(u) ==
    CASE u.t = "int" -> Return(u.v)
      [] u.t = "float" ->
            Return(IF u.v >= 0 THEN u.v \div 10 ELSE 0 - ((0 - u.v) \div 10))
      [] u.t = "digits" -> Return(u.v)
      [] u.t = "text" -> Raise("ValueError")
      [] u.t = "inf" -> Raise("OverflowError")
      [] OTHER -> Raise("TypeError")

\* str(x) on a decoded JSON value
StrOf(r) == IF r = "str" THEN <<"r">> ELSE <<"7">>

\* the try block of classify: requests.post, raise_for_status, resp.json(),
\* json.loads(data["message"]["content"]), int(content["urgency"]),
\* str(content["reason"])
TryRequest(resp) ==
    IF resp.exc # NoExc THEN Raise(resp.exc)
    ELSE IF resp.status >= 400 THEN Raise("HTTPError")
    ELSE IF resp.shape = "not_json" THEN Raise("JSONDecodeError")
    ELSE IF resp.shape = "array" THEN Raise("TypeError")
    ELSE IF resp.shape = "no_message" THEN Raise("KeyError")
    ELSE IF resp.shape = "message_not_object" THEN Raise("TypeError")
    ELSE IF resp.shape = "no_content" THEN Raise("KeyError")
    ELSE IF resp.shape = "content_not_string" THEN Raise("TypeError")
    ELSE IF resp.shape = "content_not_json" THEN Raise("JSONDecodeError")
    ELSE IF resp.shape = "content_array" THEN Raise("TypeError")
    ELSE IF resp.urgency.t = "missing" THEN Raise("KeyError")
    ELSE LET urgency == IntOf(resp.urgency)
         IN IF urgency.raised # NoExc THEN Raise(urgency.raised)
            ELSE IF resp.reason = "missing" THEN Raise("KeyError")
            ELSE Return([urgency |-> urgency.value, reason |-> StrOf(resp.reason)])

Max(a, b) == IF a >= b THEN a ELSE b
Min(a, b) == IF a <= b THEN a ELSE b

FallbackReason == <<"LLM unavailable -- notifying as precaution">>

\* the fallback scored with the default threshold instead of the configured one
_fallback_default_urgency(cfg) == Classification(3, FallbackReason)

\* llm_classifier._fallback
_fallback(cfg) == Classification(cfg.urgency_threshold, FallbackReason)

\* classify without the clamp of line 76
classify_unclamped(m, cfg, resp) ==
    LET try == TryRequest(resp)
    IN IF try.raised = NoExc
       THEN Return(Classification(try.value.urgency, try.value.reason))
       ELSE IF Catches({"ConnectionError", "Timeout"}, try.raised)
            THEN Return(_fallback(cfg))
            ELSE IF Catches({"KeyError", "TypeError", "ValueError", "JSONDecodeError"},
                            try.raised)
                 THEN Return(_fallback(cfg))
                 ELSE Raise(try.raised)

\* llm_classifier.classify, given the outcome of its HTTP round trip
classify(m, cfg, resp) ==
    LET try == TryRequest(resp)
    IN IF try.raised = NoExc
       THEN Return(Classification(Max(1, Min(5, try.value.urgency)), try.value.reason))
       ELSE IF Catches({"ConnectionError", "Timeout"}, try.raised)
            THEN Return(_fallback(cfg))
            ELSE IF Catches({"KeyError", "TypeError", "ValueError", "JSONDecodeError"},
                            try.raised)
                 THEN Return(_fallback(cfg))
                 ELSE Raise(try.raised)

-----------------------------------------------------------------------------
(* notifier.py *)

\* the urgency argument of notify (int | None)
NoScore == [given |-> FALSE, v |-> 0]
Score(n) == [given |-> TRUE, v |-> n]

\* the mapping with urgency 4 left at "normal"
_urgency_level_critical_at_5(urgency) ==
    IF ~urgency.given THEN "normal"
    ELSE IF urgency.v <= 2 THEN "low"
    ELSE IF urgency.v <= 4 THEN "normal"
    ELSE "critical"

\* notifier._urgency_level
_urgency_level(urgency) ==
    IF ~urgency.given THEN "normal"
    ELSE IF urgency.v <= 2 THEN "low"
    ELSE IF urgency.v <= 3 THEN "normal"
    ELSE "critical"

\* msg.text[:200]
BodyLimit == 200
\* the text taken whole
Truncate_whole(text) == text

Truncate(text) == SubSeq(text, 1, Min(BodyLimit, Len(text)))

\* notifier.notify: the notify-send command it runs
notify(m, reason, urgency, cfg) ==
    [title |-> IF m.is_dm THEN <<"Slack: DM from @", m.sender>>
                          ELSE <<"Slack: #", m.channel>>,
     body |-> Truncate(m.text) \o <<"\n\n">> \o reason,
     level |-> _urgency_level(urgency),
     expire_ms |-> cfg.notification_timeout * 1000,
     reason |-> reason,
     urgency |-> urgency]

\* what subprocess.run(["notify-send", ...]) can do: return after the command
\* exited with status 0 or with another status, raise the OSError of a
\* command that cannot be executed (FileNotFoundError when there is no
\* notify-send on the PATH), or wait for a command that never exits
CommandOutcomes ==
    {[exits |-> TRUE, exc |-> NoExc, returncode |-> 0],
     [exits |-> TRUE, exc |-> NoExc, returncode |-> 1],
     [exits |-> TRUE, exc |-> "FileNotFoundError", returncode |-> 0],
     [exits |-> FALSE, exc |-> NoExc, returncode |-> 0]}

-----------------------------------------------------------------------------
(* config.py: load_config on the document yaml.safe_load returned *)

\* YAML scalars as Python values: an int, a float (held in tenths), the float
\* nan, a str, a bool; Absent is a key that the mapping does not hold
YInt(n) == [t |-> "int", v |-> n]
YFloat(tenths) == [t |-> "float", v |-> tenths]
YNaN == [t |-> "nan", v |-> 0]
YStr == [t |-> "str", v |-> 0]
YBool(n) == [t |-> "bool", v |-> n]
Absent == [t |-> "absent", v |-> 0]

\* values of the key urgency_threshold
RawThresholds ==
    {Absent, YInt(0), YInt(1), YInt(5), YInt(6), YFloat(30), YStr, YBool(1)}

\* values of the key ollama_timeout
RawTimeouts ==
    {Absent, YInt(0), YInt(3), YFloat(5), YFloat(-5), YNaN, YStr, YBool(1)}

\* values found where an action is expected: the three actions and a string
\* that is none of them
RawActions == FilterAction \cup {"notify"}

NoMap == [k \in {} |-> SKIP]

\* values of the key rules: absent, not a mapping, or a mapping whose keys
\* are a rule key (dms), a key that is no rule key (archive), or both
RawRuleSections ==
    {[t |-> "absent", m |-> NoMap], [t |-> "scalar", m |-> NoMap]}
        \cup {[t |-> "map", m |-> [k \in {"dms"} |-> a]] : a \in RawActions}
        \cup {[t |-> "map", m |-> [k \in {"archive"} |-> "notify"]]}
        \cup {[t |-> "map",
               m |-> [k \in {"dms", "archive"} |-> IF k = "dms" THEN SKIP ELSE "notify"]]}

\* values of the key channels
RawChannelSections ==
    {[t |-> "absent", m |-> NoMap], [t |-> "scalar", m |-> NoMap]}
        \cup {[t |-> "map", m |-> [k \in {"incidents"} |-> a]] : a \in {SKIP, "notify"}}

\* entries of the list under keywords: a scalar, or a mapping with the keys
\* `keys`; pattern is a str (the token sequence v) or an int
RawKeywordEntries ==
    {[dict |-> FALSE, keys |-> {}, pattern |-> [t |-> "str", v |-> <<>>], action |-> SKIP],
     [dict |-> TRUE, keys |-> {"action"},
      pattern |-> [t |-> "str", v |-> <<>>], action |-> SKIP],
     [dict |-> TRUE, keys |-> {"pattern"},
      pattern |-> [t |-> "str", v |-> <<"d">>], action |-> SKIP],
     [dict |-> TRUE, keys |-> {"pattern", "action"},
      pattern |-> [t |-> "int", v |-> <<>>], action |-> SKIP],
     [dict |-> TRUE, keys |-> {"pattern", "action"},
      pattern |-> [t |-> "str", v |-> <<"d">>], action |-> "notify"],
     [dict |-> TRUE, keys |-> {"pattern", "action"},
      pattern |-> [t |-> "str", v |-> <<"d">>], action |-> SKIP],
     [dict |-> TRUE, keys |-> {"pattern", "action"},
      pattern |-> [t |-> "str", v |-> <<"regex:", "(">>], action |-> FORCE_NOTIFY]}

\* values of the key keywords: absent, not a list, or a list of entries
RawKeywordSections ==
    {[t |-> "absent", l |-> <<>>], [t |-> "scalar", l |-> <<>>]}
        \cup {[t |-> "list", l |-> l] : l \in SeqsUpTo(RawKeywordEntries, MaxRawKeywords)}

\* config.KNOWN_KEYS
KNOWN_KEYS ==
    {"model", "ollama_url", "ollama_timeout", "urgency_threshold", "system_prompt",
     "rules", "channels", "keywords", "notification_timeout"}

\* the top-level keys of a document that are not in KNOWN_KEYS: none, or two
UnknownKeySets == {{}, {"colour", "debug"} \ KNOWN_KEYS}

\* what open and yaml.safe_load do: there is no such file, the file is not
\* YAML, or safe_load returns None (an empty file), a value that is not a
\* mapping, or a mapping
RawDocuments ==
    {[kind |-> k, unknown_keys |-> {}, urgency_threshold |-> Absent,
      ollama_timeout |-> Absent,
      rules |-> [t |-> "absent", m |-> NoMap],
      channels |-> [t |-> "absent", m |-> NoMap],
      keywords |-> [t |-> "absent", l |-> <<>>]] :
        k \in {"no_file", "bad_yaml", "null", "list"}}
    \cup {[kind |-> "mapping", unknown_keys |-> u,
           urgency_threshold |-> th, ollama_timeout |-> ti,
           rules |-> r, channels |-> c, keywords |-> k] :
            u \in UnknownKeySets,
            th \in RawThresholds, ti \in RawTimeouts, r \in RawRuleSections,
            c \in RawChannelSections, k \in RawKeywordSections}

VALID_RULE_KEYS == RuleKeys

\* config._parse_action
_parse_action(value) ==
    IF value \in FilterAction THEN Return(value) ELSE Raise("ValueError")

\* isinstance(x, int): a bool is an int
IsInt(x) == x.t \in {"int", "bool"}
\* isinstance(x, (int, float))
IsNumber(x) == x.t \in {"int", "bool", "float", "nan"}
\* x <= 0 on numbers: every comparison with nan is False
NotAbove0(x) == x.t # "nan" /\ x.v <= 0

\* config._validate_config, on the Config object load_config has filled
_validate_config(c) ==
    IF ~IsInt(c.urgency_threshold) THEN Raise("ValueError")
    ELSE IF ~(1 <= c.urgency_threshold.v /\ c.urgency_threshold.v <= 5)
    THEN Raise("ValueError")
    ELSE IF ~IsNumber(c.ollama_timeout) THEN Raise("ValueError")
    ELSE IF NotAbove0(c.ollama_timeout) THEN Raise("ValueError")
    ELSE IF \E i \in DOMAIN c.keywords :
               \/ "pattern" \notin c.keywords[i].keys
               \/ "action" \notin c.keywords[i].keys
               \/ c.keywords[i].pattern.t # "str"
    THEN Raise("ValueError")
    ELSE Return(None)

\* the rules section replacing the table: a rule the file leaves out is SKIP
LoadRules_replaces(section) ==
    IF section.t = "absent" THEN Return(DEFAULT_RULES)
    ELSE IF section.t # "map" THEN Raise("ValueError")
    ELSE IF \E k \in DOMAIN section.m \cap VALID_RULE_KEYS :
               _parse_action(section.m[k]).raised # NoExc
    THEN Raise("ValueError")
    ELSE Return([k \in RuleKeys |->
                    IF k \in DOMAIN section.m THEN section.m[k] ELSE SKIP])

\* the rules section of load_config: the defaults, overridden by the known
\* rule keys of the mapping; unknown keys are skipped before their value is
\* parsed
LoadRules(section) ==
    IF section.t = "absent" THEN Return(DEFAULT_RULES)
    ELSE IF section.t # "map" THEN Raise("ValueError")
    ELSE IF \E k \in DOMAIN section.m \cap VALID_RULE_KEYS :
               _parse_action(section.m[k]).raised # NoExc
    THEN Raise("ValueError")
    ELSE Return([k \in RuleKeys |->
                    IF k \in DOMAIN section.m
                    THEN section.m[k] ELSE DEFAULT_RULES[k]])

\* the channels section of load_config
LoadChannels(section) ==
    IF section.t = "absent" THEN Return(NoMap)
    ELSE IF section.t # "map" THEN Raise("ValueError")
    ELSE IF \E k \in DOMAIN section.m : _parse_action(section.m[k]).raised # NoExc
    THEN Raise("ValueError")
    ELSE Return(section.m)

\* the keywords section of load_config: an action is parsed where an entry
\* has one
LoadKeywords(section) ==
    IF section.t = "absent" THEN Return(<<>>)
    ELSE IF section.t # "list" THEN Raise("ValueError")
    ELSE IF \E i \in DOMAIN section.l :
               \/ ~section.l[i].dict
               \/ /\ "action" \in section.l[i].keys
                  /\ _parse_action(section.l[i].action).raised # NoExc
    THEN Raise("ValueError")
    ELSE Return(section.l)

\* the value of a scalar field: the document's, or the dataclass default
FieldOr(value, default) == IF value.t = "absent" THEN default ELSE value

\* load_config with the unknown keys of lines 129-131 and 155-157 rejected
load_config_strict(doc) ==
    IF doc.kind # "mapping" THEN Raise("ValueError")
    ELSE IF doc.unknown_keys # {} THEN Raise("ValueError")
    ELSE IF DOMAIN doc.rules.m \ VALID_RULE_KEYS # {} THEN Raise("ValueError")
    ELSE Return(Config(DEFAULT_RULES, NoMap, <<>>, 3))

\* config.load_config, from open(path) on. The keys of doc.unknown_keys are
\* logged with a warning (lines 129-131) and not read again.
load_config(doc) ==
    IF doc.kind = "no_file" THEN Raise("FileNotFoundError")
    ELSE IF doc.kind = "bad_yaml" THEN Raise("YAMLError")
    ELSE IF doc.kind \notin {"null", "mapping"} THEN Raise("ValueError")
    ELSE
    LET rules == LoadRules(doc.rules)
        channels == LoadChannels(doc.channels)
        keywords == LoadKeywords(doc.keywords)
    IN IF rules.raised # NoExc THEN Raise(rules.raised)
       ELSE IF channels.raised # NoExc THEN Raise(channels.raised)
       ELSE IF keywords.raised # NoExc THEN Raise(keywords.raised)
       ELSE
       LET c == [urgency_threshold |-> FieldOr(doc.urgency_threshold, YInt(3)),
                 ollama_timeout |-> FieldOr(doc.ollama_timeout, YInt(3)),
                 keywords |-> keywords.value]
           valid == _validate_config(c)
       IN IF valid.raised # NoExc THEN Raise(valid.raised)
          ELSE Return([Config(rules.value, channels.value,
                              [i \in DOMAIN c.keywords |->
                                  [pattern |-> c.keywords[i].pattern.v,
                                   action |-> c.keywords[i].action]],
                              c.urgency_threshold.v)
                          EXCEPT !.ollama_timeout = c.ollama_timeout])

-----------------------------------------------------------------------------
(* slack_listener.py: SlackListener.parse_event *)

\* event.get(key) of a key the event does not hold, and of a key that holds
\* JSON null: both are None in Python
Missing == "<missing>"
JsonNull == "<null>"

\* slack_listener._IGNORED_SUBTYPES
_IGNORED_SUBTYPES ==
    {"channel_join", "channel_leave", "channel_topic", "channel_purpose",
     "channel_name", "channel_archive", "channel_unarchive", "group_join",
     "group_leave", "group_topic", "group_purpose", "group_name",
     "group_archive", "group_unarchive"}

\* the identifiers events carry: one more than the window holds
EventIds == {<<n>> : n \in 1..(MaxSeen + 1)}

\* the text of an event that mentions the bot
MentionOf(bot) == <<"<@", bot, ">">>

\* the event dicts Slack may deliver
AllEvents ==
    [client_msg_id : {NoId, Id(<<>>), Id(<<1>>)},
     ts : {NoId} \cup {Id(i) : i \in EventIds},
     subtype : {Missing, "channel_join", "bot_message"},
     channel : {Missing, "", "C1"},
     user : {Missing, "", "U_ALICE"},
     bot_id : {Missing, JsonNull, "", "B1"},
     channel_type : {Missing, "im"},
     text : {<<"x">>, MentionOf("U_BOT")}]

\* the events of the model: the client_msg_id key is varied, and the
\* channel_join subtype is carried, on the events that hold no bot_id, no
\* channel_type and a plain text
Events ==
    {e \in AllEvents :
        \/ e.client_msg_id = NoId /\ e.subtype # "channel_join"
        \/ e.bot_id = Missing /\ e.channel_type = Missing /\ e.text = <<"x">>}

\* a or b, on two results of event.get
OrElse(a, b) == IF a.present /\ a.v # <<>> THEN a ELSE b

\* a membership test that never finds the identifier
InDeque_never(x, q) == FALSE

\* x in deque
InDeque(x, q) == \E i \in DOMAIN q : q[i] = x

\* an append on a deque without maxlen: nothing is ever dropped
DequeAppend_unbounded(q, x) == Append(q, x)

\* deque.append on a deque with maxlen: a full deque drops its oldest entry
DequeAppend(q, x) == IF Len(q) >= MaxSeen THEN Append(Tail(q), x) ELSE Append(q, x)

\* the entry that deque.append drops, if the deque is full
DequeEvicts(q) == IF Len(q) >= MaxSeen THEN Id(Head(q)) ELSE NoId

\* cache[key] = name
Put(cache, key, name) ==
    [k \in DOMAIN cache \cup {key} |-> IF k = key THEN name ELSE cache[k]]

\* the name conversations_info gives for a channel id
ChannelNameOf(id) == IF id = "C1" THEN "general" ELSE "incidents"

\* a resolution that asks the platform even for a cached channel id
_resolve_channel_uncached(channel_id, cache, channel_type, ok) ==
    IF channel_type \in {"im", "mpim"}
    THEN [name |-> "DM", cache |-> Put(cache, channel_id, "DM"), lookups |-> {}]
    ELSE LET name == IF ok THEN ChannelNameOf(channel_id) ELSE channel_id
         IN [name |-> name, cache |-> Put(cache, channel_id, name),
             lookups |-> {<<"conversations_info", channel_id>>}]

\* SlackListener._resolve_channel; ok: the conversations_info call succeeds
_resolve_channel(channel_id, cache, channel_type, ok) ==
    IF channel_id \in DOMAIN cache
    THEN [name |-> cache[channel_id], cache |-> cache, lookups |-> {}]
    ELSE IF channel_type \in {"im", "mpim"}
    THEN [name |-> "DM", cache |-> Put(cache, channel_id, "DM"), lookups |-> {}]
    ELSE LET name == IF ok THEN ChannelNameOf(channel_id) ELSE channel_id
         IN [name |-> name, cache |-> Put(cache, channel_id, name),
             lookups |-> {<<"conversations_info", channel_id>>}]

\* SlackListener._resolve_user; ok: the users_info call succeeds, which it
\* can for the id of a user only
_resolve_user(user_id, cache, ok) ==
    IF user_id \in DOMAIN cache
    THEN [name |-> cache[user_id], cache |-> cache, lookups |-> {}]
    ELSE LET name == IF ok /\ user_id \in Users THEN DisplayNameOf(user_id)
                     ELSE user_id
         IN [name |-> name, cache |-> Put(cache, user_id, name),
             lookups |-> {<<"users_info", user_id>>}]

\* event.get("bot_id") is not None or subtype == "bot_message", as tested
\* for an event without user (line 139)
HasBotSender(event) ==
    event.bot_id \notin {Missing, JsonNull} \/ event.subtype = "bot_message"

\* is_bot decided by the subtype alone
IsBot_by_subtype(event) == event.subtype = "bot_message"

\* is_bot = event.get("bot_id") is not None or subtype == "bot_message"
\* (line 156)
IsBot(event) ==
    event.bot_id \notin {Missing, JsonNull} \/ event.subtype = "bot_message"

\* parse_event returning None without keeping the identifier of an event it
\* found invalid
Dropped_forgets(id, seen, evicts, channels, users, log) ==
    [msg |-> None, event_id |-> id,
     seen_events |-> IF log \in {"no id", "duplicate"}
                     THEN seen ELSE SubSeq(seen, 1, Len(seen) - 1),
     evicted |-> evicts,
     channel_cache |-> channels, user_cache |-> users, lookups |-> {}, log |-> log]

\* parse_event returns None after logging `log`
Dropped(id, seen, evicts, channels, users, log) ==
    [msg |-> None, event_id |-> id, seen_events |-> seen, evicted |-> evicts,
     channel_cache |-> channels, user_cache |-> users, lookups |-> {}, log |-> log]

\* SlackListener.parse_event on a listener whose state is seen, channels,
\* users; ok: the platform lookups of this call succeed
parse_event(event, bot, seen, channels, users, ok) ==
    LET id == OrElse(event.client_msg_id, event.ts)
    IN IF ~id.present THEN Dropped(id, seen, NoId, channels, users, "no id")
       ELSE IF InDeque(id.v, seen)
       THEN Dropped(id, seen, NoId, channels, users, "duplicate")
       ELSE
       LET seen2 == DequeAppend(seen, id.v)
           evicts == DequeEvicts(seen)
           subtype == event.subtype
           channel_id == event.channel
           is_bot == IsBot(event)
           sender_id == IF event.user \notin {Missing, ""} THEN event.user
                        ELSE IF event.bot_id = Missing THEN "unknown_bot"
                        ELSE event.bot_id
       IN IF subtype # Missing /\ subtype \in _IGNORED_SUBTYPES
          THEN Dropped(id, seen2, evicts, channels, users, "ignored subtype")
          ELSE IF channel_id \in {Missing, ""}
          THEN Dropped(id, seen2, evicts, channels, users, "missing channel")
          ELSE IF event.user \in {Missing, ""} /\ ~HasBotSender(event)
          THEN Dropped(id, seen2, evicts, channels, users, "missing user")
          ELSE
          LET channel == _resolve_channel(channel_id, channels, event.channel_type, ok)
              sender == _resolve_user(sender_id, users, ok)
          IN [msg |-> [channel |-> channel.name, channel_id |-> channel_id,
                       sender |-> sender.name, sender_id |-> sender_id,
                       text |-> event.text, thread_ts |-> None,
                       is_dm |-> event.channel_type \in {"im", "mpim"},
                       is_mention |-> Contains(MentionOf(bot), event.text),
                       is_bot |-> is_bot],
              event_id |-> id, seen_events |-> seen2, evicted |-> evicts,
              channel_cache |-> channel.cache, user_cache |-> sender.cache,
              lookups |-> channel.lookups \cup sender.lookups,
              log |-> NoLog]

-----------------------------------------------------------------------------
(* main.py: handle_message, one step per call it makes *)

\* the configurations of the pipeline: one rule overridden, any threshold
PipelineConfigs ==
    {Config(r, [c \in {} |-> SKIP], <<>>, th) : r \in RuleTables, th \in Thresholds}

\* the configurations of the rules engine: rules, channel overrides, keywords
FilterConfigs ==
    {Config(r, ch, kws, 3) : r \in RuleTables, ch \in ChannelMaps, kws \in KeywordLists}

\* main() has loaded the configuration, built the listener, registered the
\* handler, installed the signal handlers and called listener.start()
Started ==
    <<"load_config", "SlackListener", "app.event", "signal.signal", "listener.start">>

\* the threads of the hosting runtime that can run parse_event at once
Threads == {"T1", "T2"}

\* a thread that is running no parse_event call
IdleThread == [pc |-> "idle", event_id |-> <<>>, valid |-> FALSE, returned |-> "nothing"]

NoThreads == [t \in Threads |-> IdleThread]

\* a listener that has handled no event
NewListener ==
    /\ seen_events = <<>>
    /\ channel_cache = NoNames
    /\ user_cache = NoNames

Fresh ==
    /\ pc = "idle"
    /\ event_id = NoId
    /\ parse_log = NoLog
    /\ evicted = NoId
    /\ lookups = {}
    /\ threads = NoThreads
    /\ msg = None
    /\ result = None
    /\ response = None
    /\ classification = None
    /\ raised = NoExc
    /\ notifications = <<>>
    /\ command = None
    /\ calls = <<>>
    /\ http_requests = 0

Init ==
    /\ NewListener
    /\ startup = Started
    /\ raw = None
    /\ config \in PipelineConfigs
    /\ bot_user_id = "U_BOT"
    /\ Fresh

InitFilter ==
    /\ NewListener
    /\ startup = Started
    /\ raw = None
    /\ config \in FilterConfigs
    /\ bot_user_id = "U_BOT"
    /\ Fresh

\* handle_message without the "if msg is None: return" of lines 47-48
ParseEventStep_none_continues ==
    /\ pc = "idle"
    /\ calls' = Append(calls, "parse_event")
    /\ \/ msg' = None
       \/ msg' \in SlackMessage
    /\ pc' = "parsed"
    /\ UNCHANGED <<listener, delivery, threads, startup, raw, config,
                   bot_user_id, result, response, classification, raised,
                   notifications, command, http_requests>>

\* msg = listener.parse_event(event, client); if msg is None: return.
\* What parse_event returns for the delivered event, None or a SlackMessage,
\* is the input of this step.
ParseEventStep ==
    /\ pc = "idle"
    /\ calls' = Append(calls, "parse_event")
    /\ \/ /\ msg' = None
          /\ pc' = "done"
       \/ /\ msg' \in SlackMessage
          /\ pc' = "parsed"
    /\ UNCHANGED <<listener, delivery, threads, startup, raw, config,
                   bot_user_id, result, response, classification, raised,
                   notifications, command, http_requests>>

\* result = pre_filter(msg, config, bot_user_id)
PreFilterStep ==
    /\ pc = "parsed"
    /\ calls' = Append(calls, "pre_filter")
    /\ LET r == pre_filter(msg, config, bot_user_id)
       IN IF r.raised # NoExc
          THEN /\ raised' = r.raised
               /\ pc' = "raised"
               /\ UNCHANGED result
          ELSE /\ result' = r.value
               /\ pc' = "filtered"
               /\ UNCHANGED raised
    /\ UNCHANGED <<listener, delivery, threads, startup, raw, config,
                   bot_user_id, msg, response, classification,
                   notifications, command, http_requests>>

\* the SKIP branch notifying instead of returning
SkipStep_notifies ==
    /\ pc = "filtered"
    /\ result.action = SKIP
    /\ notifications' =
          Append(notifications,
                 notify(msg, <<"Matched rule: ">> \o result.rule, NoScore, config))
    /\ calls' = Append(calls, "notify")
    /\ command' \in CommandOutcomes
    /\ pc' = "notifying"
    /\ UNCHANGED <<listener, delivery, threads, startup, raw, config,
                   bot_user_id, msg, result, response, classification,
                   raised, http_requests>>

\* if result.action == FilterAction.SKIP: return
SkipStep ==
    /\ pc = "filtered"
    /\ result.action = SKIP
    /\ pc' = "done"
    /\ UNCHANGED <<listener, delivery, threads, startup, raw, config,
                   bot_user_id, msg, result, response, classification,
                   raised, notifications, command, calls, http_requests>>

\* the FORCE_NOTIFY branch with a reason that does not name the rule
ForceNotifyStep_without_rule ==
    /\ pc = "filtered"
    /\ result.action = FORCE_NOTIFY
    /\ notifications' =
          Append(notifications, notify(msg, <<"Matched rule">>, NoScore, config))
    /\ calls' = Append(calls, "notify")
    /\ command' \in CommandOutcomes
    /\ pc' = "notifying"
    /\ UNCHANGED <<listener, delivery, threads, startup, raw, config,
                   bot_user_id, msg, result, response, classification,
                   raised, http_requests>>

\* if result.action == FilterAction.FORCE_NOTIFY: notify(...); return
ForceNotifyStep ==
    /\ pc = "filtered"
    /\ result.action = FORCE_NOTIFY
    /\ notifications' =
          Append(notifications,
                 notify(msg, <<"Matched rule: ">> \o result.rule, NoScore, config))
    /\ calls' = Append(calls, "notify")
    /\ command' \in CommandOutcomes
    /\ pc' = "notifying"
    /\ UNCHANGED <<listener, delivery, threads, startup, raw, config,
                   bot_user_id, msg, result, response, classification,
                   raised, http_requests>>

\* classify called whatever action the decision holds
ClassifyStep_any_action ==
    /\ pc = "filtered"
    /\ calls' = Append(calls, "classify")
    /\ http_requests' = http_requests + 1
    /\ \E resp \in Responses :
          /\ response' = resp
          /\ LET c == classify(msg, config, resp)
             IN IF c.raised # NoExc
                THEN /\ raised' = c.raised
                     /\ pc' = "raised"
                     /\ UNCHANGED classification
                ELSE /\ classification' = c.value
                     /\ pc' = "classified"
                     /\ UNCHANGED raised
    /\ UNCHANGED <<listener, delivery, threads, startup, raw, config,
                   bot_user_id, msg, result, notifications, command>>

\* classify repeating the request once after a failed round trip
ClassifyStep_retries ==
    /\ pc = "filtered"
    /\ result.action = CLASSIFY
    /\ calls' = Append(calls, "classify")
    /\ \E resp \in Responses :
          /\ response' = resp
          /\ http_requests' = http_requests + (IF resp.exc # NoExc THEN 2 ELSE 1)
          /\ LET c == classify(msg, config, resp)
             IN IF c.raised # NoExc
                THEN /\ raised' = c.raised
                     /\ pc' = "raised"
                     /\ UNCHANGED classification
                ELSE /\ classification' = c.value
                     /\ pc' = "classified"
                     /\ UNCHANGED raised
    /\ UNCHANGED <<listener, delivery, threads, startup, raw, config,
                   bot_user_id, msg, result, notifications, command>>

\* classification = classify(msg, config): one requests.post, whose outcome
\* the network and the model decide
ClassifyStep ==
    /\ pc = "filtered"
    /\ result.action = CLASSIFY
    /\ calls' = Append(calls, "classify")
    /\ http_requests' = http_requests + 1
    /\ \E resp \in Responses :
          /\ response' = resp
          /\ LET c == classify(msg, config, resp)
             IN IF c.raised # NoExc
                THEN /\ raised' = c.raised
                     /\ pc' = "raised"
                     /\ UNCHANGED classification
                ELSE /\ classification' = c.value
                     /\ pc' = "classified"
                     /\ UNCHANGED raised
    /\ UNCHANGED <<listener, delivery, threads, startup, raw, config,
                   bot_user_id, msg, result, notifications, command>>

\* the threshold comparison made exclusive
MeetsThreshold_exclusive(c, cfg) == c.urgency > cfg.urgency_threshold

\* classification.urgency >= config.urgency_threshold
MeetsThreshold(c, cfg) == c.urgency >= cfg.urgency_threshold

\* the threshold branch notifying twice
ThresholdStep_notifies_twice ==
    /\ pc = "classified"
    /\ IF MeetsThreshold(classification, config)
       THEN LET n == notify(msg, classification.reason,
                            Score(classification.urgency), config)
            IN /\ notifications' = Append(Append(notifications, n), n)
               /\ calls' = Append(Append(calls, "notify"), "notify")
               /\ command' \in CommandOutcomes
               /\ pc' = "notifying"
       ELSE /\ pc' = "done"
            /\ UNCHANGED <<notifications, calls, command>>
    /\ UNCHANGED <<listener, delivery, threads, startup, raw, config,
                   bot_user_id, msg, result, response, classification,
                   raised, http_requests>>

\* if classification.urgency >= config.urgency_threshold: notify(...)
ThresholdStep ==
    /\ pc = "classified"
    /\ IF MeetsThreshold(classification, config)
       THEN /\ notifications' =
                  Append(notifications,
                         notify(msg, classification.reason,
                                Score(classification.urgency), config))
            /\ calls' = Append(calls, "notify")
            /\ command' \in CommandOutcomes
            /\ pc' = "notifying"
       ELSE /\ pc' = "done"
            /\ UNCHANGED <<notifications, calls, command>>
    /\ UNCHANGED <<listener, delivery, threads, startup, raw, config,
                   bot_user_id, msg, result, response, classification,
                   raised, http_requests>>

\* subprocess.run(["notify-send", ...]) comes back: it returns the completed
\* process whatever its exit status is (no check=True), or raises the OSError
\* of a command that cannot be executed; a command that never exits never
\* comes back (no timeout=)
SubprocessRunStep ==
    /\ pc = "notifying"
    /\ command.exits
    /\ IF command.exc # NoExc
       THEN /\ raised' = command.exc
            /\ pc' = "raised"
       ELSE /\ pc' = "done"
            /\ UNCHANGED raised
    /\ UNCHANGED <<listener, delivery, threads, startup, raw, config,
                   bot_user_id, msg, result, response, classification,
                   notifications, command, calls, http_requests>>

\* the next run starting with the notifications of the runs before it
NextEvent_keeps_notifications ==
    /\ pc \in {"done", "raised"}
    /\ pc' = "idle"
    /\ msg' = None
    /\ result' = None
    /\ response' = None
    /\ classification' = None
    /\ raised' = NoExc
    /\ calls' = <<>>
    /\ http_requests' = 0
    /\ event_id' = NoId
    /\ parse_log' = NoLog
    /\ evicted' = NoId
    /\ lookups' = {}
    /\ command' = None
    /\ UNCHANGED <<listener, threads, startup, raw, config, bot_user_id,
                   notifications>>

\* handle_message has returned or raised; the next event is delivered to a
\* new run
NextEvent ==
    /\ pc \in {"done", "raised"}
    /\ pc' = "idle"
    /\ msg' = None
    /\ result' = None
    /\ response' = None
    /\ classification' = None
    /\ raised' = NoExc
    /\ notifications' = <<>>
    /\ command' = None
    /\ calls' = <<>>
    /\ http_requests' = 0
    /\ event_id' = NoId
    /\ parse_log' = NoLog
    /\ evicted' = NoId
    /\ lookups' = {}
    /\ UNCHANGED <<listener, threads, startup, raw, config, bot_user_id>>

Next ==
    \/ ParseEventStep
    \/ PreFilterStep
    \/ SkipStep
    \/ ForceNotifyStep
    \/ ClassifyStep
    \/ ThresholdStep
    \/ SubprocessRunStep
    \/ NextEvent

Spec == Init /\ [][Next]_vars

\* the rules engine alone, over every configuration of FilterConfigs
NextFilter ==
    \/ ParseEventStep
    \/ PreFilterStep
    \/ NextEvent

SpecFilter == InitFilter /\ [][NextFilter]_vars

\* main() going on to build the listener after load_config has failed
LoadConfigStep_continues ==
    /\ pc = "start"
    /\ startup' = Append(startup, "load_config")
    /\ LET c == load_config(raw)
       IN IF c.raised # NoExc
          THEN /\ raised' = c.raised
               /\ UNCHANGED config
          ELSE /\ config' = c.value
               /\ UNCHANGED raised
    /\ pc' = "loaded"
    /\ UNCHANGED <<listener, delivery, threads>>
    /\ UNCHANGED <<raw, bot_user_id, msg, result, response, classification,
                   notifications, command, calls, http_requests>>

\* main(): config = load_config(); a FileNotFoundError or ValueError is
\* logged and the process exits with status 1; any other exception leaves
\* main() uncaught
LoadConfigStep ==
    /\ pc = "start"
    /\ LET c == load_config(raw)
       IN IF c.raised = NoExc
          THEN /\ config' = c.value
               /\ startup' = Append(startup, "load_config")
               /\ pc' = "loaded"
               /\ UNCHANGED raised
          ELSE /\ raised' = c.raised
               /\ UNCHANGED config
               /\ IF Catches({"FileNotFoundError", "ValueError"}, c.raised)
                  THEN /\ startup' = startup \o <<"load_config", "sys.exit(1)">>
                       /\ pc' = "exit"
                  ELSE /\ startup' = Append(startup, "load_config")
                       /\ pc' = "crashed"
    /\ UNCHANGED <<listener, delivery, threads>>
    /\ UNCHANGED <<raw, bot_user_id, msg, result, response, classification,
                   notifications, command, calls, http_requests>>

\* listener = SlackListener(); bot_user_id = listener.bot_user_id. The
\* constructor raises KeyError when a token is not in the environment.
ConstructListenerStep ==
    /\ pc = "loaded"
    /\ startup' = Append(startup, "SlackListener")
    /\ \/ /\ bot_user_id' = "U_BOT"
          /\ pc' = "constructed"
          /\ UNCHANGED raised
       \/ /\ raised' = "KeyError"
          /\ pc' = "crashed"
          /\ UNCHANGED bot_user_id
    /\ UNCHANGED <<listener, delivery, threads>>
    /\ UNCHANGED <<raw, config, msg, result, response, classification,
                   notifications, command, calls, http_requests>>

\* @listener.app.event("message") registers _on_message
RegisterHandlerStep ==
    /\ pc = "constructed"
    /\ startup' = Append(startup, "app.event")
    /\ pc' = "registered"
    /\ UNCHANGED <<listener, delivery, threads>>
    /\ UNCHANGED <<raw, config, bot_user_id, msg, result, response, classification,
                   raised, notifications, command, calls, http_requests>>

\* signal.signal(SIGTERM, _shutdown); signal.signal(SIGINT, _shutdown)
InstallSignalHandlersStep ==
    /\ pc = "registered"
    /\ startup' = Append(startup, "signal.signal")
    /\ pc' = "installed"
    /\ UNCHANGED <<listener, delivery, threads>>
    /\ UNCHANGED <<raw, config, bot_user_id, msg, result, response, classification,
                   raised, notifications, command, calls, http_requests>>

\* listener.start(): from here on events are delivered to handle_message
StartListenerStep ==
    /\ pc = "installed"
    /\ startup' = Append(startup, "listener.start")
    /\ pc' = "idle"
    /\ UNCHANGED <<listener, delivery, threads>>
    /\ UNCHANGED <<raw, config, bot_user_id, msg, result, response, classification,
                   raised, notifications, command, calls, http_requests>>

\* start-up on a configuration document, then the rules engine on the Config
\* that load_config returned
InitConfig ==
    /\ NewListener
    /\ event_id = NoId
    /\ parse_log = NoLog
    /\ evicted = NoId
    /\ lookups = {}
    /\ threads = NoThreads
    /\ startup = <<>>
    /\ raw \in RawDocuments
    /\ config = None
    /\ bot_user_id = None
    /\ pc = "start"
    /\ msg = None
    /\ result = None
    /\ response = None
    /\ classification = None
    /\ raised = NoExc
    /\ notifications = <<>>
    /\ command = None
    /\ calls = <<>>
    /\ http_requests = 0

NextConfig ==
    \/ LoadConfigStep
    \/ ConstructListenerStep
    \/ RegisterHandlerStep
    \/ InstallSignalHandlersStep
    \/ StartListenerStep
    \/ ParseEventStep
    \/ PreFilterStep
    \/ NextEvent

SpecConfig == InitConfig /\ [][NextConfig]_vars

\* msg = listener.parse_event(event, client); if msg is None: return, with
\* parse_event run on the listener's state for the delivered event
ListenerParseEventStep ==
    /\ pc = "idle"
    /\ calls' = Append(calls, "parse_event")
    /\ \E event \in Events, ok \in BOOLEAN :
          LET r == parse_event(event, bot_user_id, seen_events, channel_cache,
                               user_cache, ok)
          IN /\ msg' = r.msg
             /\ event_id' = r.event_id
             /\ parse_log' = r.log
             /\ evicted' = r.evicted
             /\ lookups' = r.lookups
             /\ seen_events' = r.seen_events
             /\ channel_cache' = r.channel_cache
             /\ user_cache' = r.user_cache
             /\ pc' = IF r.msg = None THEN "done" ELSE "parsed"
    /\ UNCHANGED <<threads, startup, raw, config, bot_user_id, result, response,
                   classification, raised, notifications, command, http_requests>>

\* the running program under the default configuration: events are parsed
\* by the listener and handled one after the other
InitListener ==
    /\ NewListener
    /\ startup = Started
    /\ raw = None
    /\ config = Config(DEFAULT_RULES, NoMap, <<>>, 3)
    /\ bot_user_id = "U_BOT"
    /\ Fresh

NextListener ==
    \/ ListenerParseEventStep
    \/ PreFilterStep
    \/ SkipStep
    \/ ForceNotifyStep
    \/ ClassifyStep
    \/ ThresholdStep
    \/ SubprocessRunStep
    \/ NextEvent

SpecListener == InitListener /\ [][NextListener]_vars

\* a text of n characters, "a" and "b" in turn
TextOfLength(n) == [i \in 1..n |-> IF i % 2 = 1 THEN "a" ELSE "b"]

\* lengths around the limit of the notification body
TextLengths == {0, 1, BodyLimit - 1, BodyLimit, BodyLimit + 1, BodyLimit + 100}

\* messages with texts of those lengths
LongMessages ==
    {[channel |-> "general", channel_id |-> "C1", sender |-> DisplayNameOf(u),
      sender_id |-> u, text |-> TextOfLength(n), thread_ts |-> None,
      is_dm |-> dm, is_mention |-> me, is_bot |-> bo] :
        u \in Users, n \in TextLengths,
        dm \in BOOLEAN, me \in BOOLEAN, bo \in BOOLEAN}

\* msg = listener.parse_event(event, client), the event being a message
\* with a long text
ParseLongEventStep ==
    /\ pc = "idle"
    /\ calls' = Append(calls, "parse_event")
    /\ msg' \in LongMessages
    /\ pc' = "parsed"
    /\ UNCHANGED <<listener, delivery, threads, startup, raw, config,
                   bot_user_id, result, response, classification, raised,
                   notifications, command, http_requests>>

\* the pipeline under the default rules and threshold 1, on long texts
InitNotify ==
    /\ NewListener
    /\ startup = Started
    /\ raw = None
    /\ config = Config(DEFAULT_RULES, NoMap, <<>>, 1)
    /\ bot_user_id = "U_BOT"
    /\ Fresh

NextNotify ==
    \/ ParseLongEventStep
    \/ PreFilterStep
    \/ SkipStep
    \/ ForceNotifyStep
    \/ ClassifyStep
    \/ ThresholdStep
    \/ SubprocessRunStep
    \/ NextEvent

SpecNotify == InitNotify /\ [][NextNotify]_vars

\* the same pipeline with its steps taken one after the other without pause:
\* handle_message is synchronous code, a step that can be taken is taken
SpecTermination == InitNotify /\ [][NextNotify]_vars /\ WF_vars(NextNotify)

\* texts in either letter case, with and without U+00DF
CaseTexts ==
    {<<>>, <<"d">>, <<"D">>, <<"x">>, <<"sz">>, <<"S", "S">>, <<"s", "s">>}

\* keyword entries of both forms in either letter case
CaseKeywordEntries ==
    {[pattern |-> <<"d">>, action |-> SKIP],
     [pattern |-> <<"D">>, action |-> FORCE_NOTIFY],
     [pattern |-> <<"regex:", "d">>, action |-> CLASSIFY],
     [pattern |-> <<"sz">>, action |-> FORCE_NOTIFY],
     [pattern |-> <<"regex:", "sz">>, action |-> SKIP],
     [pattern |-> <<"S", "S">>, action |-> CLASSIFY]}

CaseConfigs ==
    {Config(DEFAULT_RULES, NoMap, kws, 3) : kws \in SeqsUpTo(CaseKeywordEntries, MaxKeywords)}

CaseMessages ==
    {[channel |-> "general", channel_id |-> "C1", sender |-> DisplayNameOf(u),
      sender_id |-> u, text |-> t, thread_ts |-> None,
      is_dm |-> dm, is_mention |-> me, is_bot |-> bo] :
        u \in Users, t \in CaseTexts,
        dm \in BOOLEAN, me \in BOOLEAN, bo \in BOOLEAN}

\* msg = listener.parse_event(event, client), the event being a message
\* whose text is one of CaseTexts
ParseCaseEventStep ==
    /\ pc = "idle"
    /\ calls' = Append(calls, "parse_event")
    /\ msg' \in CaseMessages
    /\ pc' = "parsed"
    /\ UNCHANGED <<listener, delivery, threads, startup, raw, config,
                   bot_user_id, result, response, classification, raised,
                   notifications, command, http_requests>>

\* parse_event and pre_filter on texts and patterns in either letter case
InitCase ==
    /\ NewListener
    /\ startup = Started
    /\ raw = None
    /\ config \in CaseConfigs
    /\ bot_user_id = "U_BOT"
    /\ Fresh

NextCase ==
    \/ ParseCaseEventStep
    \/ PreFilterStep

SpecCase == InitCase /\ [][NextCase]_vars

\* the deques a listener can hold: different identifiers, at most MaxSeen
Deques ==
    {q \in SeqsUpTo(EventIds, MaxSeen) : \A i, j \in DOMAIN q : i # j => q[i] # q[j]}

\* thread t is handed an event, a message (valid) or an event that the
\* checks after the append drop, and runs parse_event up to its membership
\* test (lines 112-119): for a remembered identifier the call returns None
MembershipStep(t) ==
    /\ threads[t].pc = "idle"
    /\ \E id \in EventIds, valid \in BOOLEAN :
          threads' = [threads EXCEPT ![t] =
              [pc |-> IF InDeque(id, seen_events) THEN "returned" ELSE "checked",
               event_id |-> id, valid |-> valid,
               returned |-> IF InDeque(id, seen_events) THEN "None" ELSE "nothing"]]
    /\ UNCHANGED <<listener, delivery, startup, raw, config, bot_user_id,
                   pc, msg, result, response, classification,
                   raised, notifications, command, calls, http_requests>>

\* thread t goes on after a negative membership test: it appends the
\* identifier (line 121)
AppendStep(t) ==
    /\ threads[t].pc = "checked"
    /\ seen_events' = DequeAppend(seen_events, threads[t].event_id)
    /\ threads' = [threads EXCEPT ![t].pc = "recorded"]
    /\ UNCHANGED <<channel_cache, user_cache, delivery, startup, raw, config,
                   bot_user_id, pc, msg, result, response, classification,
                   raised, notifications, command, calls, http_requests>>

\* thread t validates the event and returns the message, or None (lines
\* 123-168)
ReturnStep(t) ==
    /\ threads[t].pc = "recorded"
    /\ threads' = [threads EXCEPT
          ![t].pc = "returned",
          ![t].returned = IF threads[t].valid THEN "message" ELSE "None"]
    /\ UNCHANGED <<listener, delivery, startup, raw, config, bot_user_id,
                   pc, msg, result, response, classification,
                   raised, notifications, command, calls, http_requests>>

\* two parse_event calls run at once on the shared listener, one call per
\* thread, on a listener that has handled events before
InitConcurrent ==
    /\ seen_events \in Deques
    /\ channel_cache = NoNames
    /\ user_cache = NoNames
    /\ startup = Started
    /\ raw = None
    /\ config = Config(DEFAULT_RULES, NoMap, <<>>, 3)
    /\ bot_user_id = "U_BOT"
    /\ Fresh

NextConcurrent ==
    \E t \in Threads : MembershipStep(t) \/ AppendStep(t) \/ ReturnStep(t)

SpecConcurrent == InitConcurrent /\ [][NextConcurrent]_vars

\* the signals main() installs _shutdown for
Signals == {"SIGTERM", "SIGINT"}

\* main() has made the call named f
Called(f) == \E i \in DOMAIN startup : startup[i] = f

\* the signals delivered so far
SignalsDelivered == Cardinality({i \in DOMAIN startup : startup[i] \in Signals})

\* a delivery that runs a handler which does not close the listener
SignalStep_without_close ==
    /\ pc \notin {"exit", "crashed", "killed"}
    /\ SignalsDelivered < MaxSignals
    /\ \E sig \in Signals :
          IF Called("signal.signal")
          THEN /\ startup' = Append(startup, sig)
               /\ pc' = pc
          ELSE /\ startup' = Append(startup, sig)
               /\ pc' = "killed"
    /\ UNCHANGED <<listener, delivery, threads>>
    /\ UNCHANGED <<raw, config, bot_user_id, msg, result, response, classification,
                   raised, notifications, command, calls, http_requests>>

\* SIGTERM or SIGINT is delivered to the process: once signal.signal has
\* installed _shutdown the interpreter runs it, and it calls listener.close();
\* before that the signal's default action ends the process
SignalStep ==
    /\ pc \notin {"exit", "crashed", "killed"}
    /\ SignalsDelivered < MaxSignals
    /\ \E sig \in Signals :
          IF Called("signal.signal")
          THEN /\ startup' = startup \o <<sig, "listener.close">>
               /\ pc' = pc
          ELSE /\ startup' = Append(startup, sig)
               /\ pc' = "killed"
    /\ UNCHANGED <<listener, delivery, threads>>
    /\ UNCHANGED <<raw, config, bot_user_id, msg, result, response, classification,
                   raised, notifications, command, calls, http_requests>>

\* start-up on a missing, unreadable, empty or non-mapping configuration
\* file, then the rules engine, with signals delivered at any moment
InitShutdown ==
    /\ NewListener
    /\ event_id = NoId
    /\ parse_log = NoLog
    /\ evicted = NoId
    /\ lookups = {}
    /\ threads = NoThreads
    /\ startup = <<>>
    /\ raw \in {doc \in RawDocuments : doc.kind # "mapping"}
    /\ config = None
    /\ bot_user_id = None
    /\ pc = "start"
    /\ msg = None
    /\ result = None
    /\ response = None
    /\ classification = None
    /\ raised = NoExc
    /\ notifications = <<>>
    /\ command = None
    /\ calls = <<>>
    /\ http_requests = 0

NextShutdown ==
    \/ LoadConfigStep
    \/ ConstructListenerStep
    \/ RegisterHandlerStep
    \/ InstallSignalHandlersStep
    \/ StartListenerStep
    \/ SignalStep
    \/ ParseEventStep
    \/ PreFilterStep
    \/ NextEvent

SpecShutdown == InitShutdown /\ [][NextShutdown]_vars

-----------------------------------------------------------------------------
(* Properties *)

\* handle_message has ended, by returning or by raising
Ended == pc \in {"done", "raised"}

\* this run called classify
Classified == http_requests > 0

\* the HTTP round trip failed: no connection, a timeout, a broken transfer,
\* an HTTP error status, a body that is not JSON or lacks the expected keys
RoundTripFailed(resp) ==
    \/ resp.exc # NoExc
    \/ resp.status >= 400
    \/ resp.shape # "content_object"
    \/ resp.urgency.t = "missing"
    \/ resp.urgency.t = "int" /\ resp.reason = "missing"

\* C1: fail-open end to end. A message whose decision is CLASSIFY and whose
\* classifier round trip failed in any way still gets exactly one
\* notification from handle_message.
C1_FailOpen ==
    (Ended /\ Classified /\ RoundTripFailed(response)) => Len(notifications) = 1

\* C2: classify never raises outward. Whatever the outcome of the HTTP
\* request, classify returns a Classification and no exception leaves it.
C2_ClassifyNeverRaises ==
    Classified => classification # None

\* pre_filter has been applied to msg (it returned or raised)
Filtered == pc \in {"filtered", "raised"} /\ ~Classified

\* C3: self dominates. A message whose sender_id is the bot's own id gets
\* rule "self" with action rules["self"], whatever the configuration and the
\* other fields of the message are.
C3_SelfDominates ==
    (Filtered /\ msg.sender_id = bot_user_id)
        => /\ pc = "filtered"
           /\ result = FilterResult(config.rules["self"], <<"self">>)

\* a self message that every later rule would also match
C3_Witness ==
    /\ pc = "filtered"
    /\ msg.sender_id = bot_user_id
    /\ msg.is_bot /\ msg.is_mention /\ msg.is_dm
    /\ msg.channel \in DOMAIN config.channels
    /\ msg.text = <<"d">>
    /\ Len(config.keywords) > 0
    /\ config.keywords[1] = [pattern |-> <<"d">>, action |-> FORCE_NOTIFY]
    /\ config.rules["self"] = CLASSIFY
    /\ result.rule = <<"self">>

EntryMatches(kw, text) ==
    IF IsRegexPattern(kw.pattern)
    THEN RegexCompiles(Tail(kw.pattern)) /\ RegexSearch(Tail(kw.pattern), text)
    ELSE Contains(Lower(kw.pattern), Lower(text))

MatchingEntries(cfg, text) ==
    {i \in 1..Len(cfg.keywords) : EntryMatches(cfg.keywords[i], text)}

FirstMatch(cfg, text) ==
    CHOOSE i \in MatchingEntries(cfg, text) :
        \A j \in MatchingEntries(cfg, text) : i <= j

KeywordDecision(kw) == FilterResult(kw.action, <<"keyword:">> \o kw.pattern)

\* every "regex:" pattern of the configuration compiles
AllRegexesCompile(cfg) ==
    \A i \in 1..Len(cfg.keywords) :
        IsRegexPattern(cfg.keywords[i].pattern)
            => RegexCompiles(Tail(cfg.keywords[i].pattern))

\* msg is neither from the bot itself nor from a bot
FromHuman == msg.sender_id # bot_user_id /\ ~msg.is_bot

\* C5: keyword first match wins. For a message neither from self nor from a
\* bot, if some keyword entry matches the text, pre_filter returns the action
\* of the lowest-index matching entry and the rule "keyword:" followed by
\* that entry's literal pattern; later matching entries never matter.
C5_FirstKeywordWins ==
    (Filtered /\ FromHuman /\ MatchingEntries(config, msg.text) # {})
        => /\ pc = "filtered"
           /\ result = KeywordDecision(config.keywords[FirstMatch(config, msg.text)])

\* C5 on the configurations whose regular expressions all compile
C5_OnCompilingConfigs == AllRegexesCompile(config) => C5_FirstKeywordWins

\* C6: keywords precede the contextual rules. For a message neither from
\* self nor from a bot whose text matches a keyword entry, pre_filter returns
\* that keyword's decision regardless of is_mention, is_dm and of any channel
\* override for the message's channel.
C6_KeywordsBeforeContext ==
    (Filtered /\ FromHuman /\ MatchingEntries(config, msg.text) # {})
        => /\ pc = "filtered"
           /\ Head(result.rule) = "keyword:"
           /\ \E i \in MatchingEntries(config, msg.text) :
                 result = KeywordDecision(config.keywords[i])
           /\ result.rule \notin {<<"mentions">>, <<"dms">>, <<"default">>,
                                  <<"channel:", msg.channel>>}

\* C6 on the configurations whose regular expressions all compile
C6_OnCompilingConfigs == AllRegexesCompile(config) => C6_KeywordsBeforeContext

\* C7: mention beats DM. A message with is_mention and is_dm both true, not
\* from self, not from a bot and matching no keyword gets rule "mentions"
\* with action rules["mentions"], never "dms".
C7_MentionBeatsDm ==
    (Filtered /\ FromHuman /\ MatchingEntries(config, msg.text) = {}
        /\ msg.is_mention /\ msg.is_dm)
        => /\ pc = "filtered"
           /\ result = FilterResult(config.rules["mentions"], <<"mentions">>)

\* C7 on the configurations whose regular expressions all compile
C7_OnCompilingConfigs == AllRegexesCompile(config) => C7_MentionBeatsDm

\* C8: channel override. A message whose channel is a key of the channel
\* mapping and that none of self, bots, keywords, mentions, dms matches gets
\* rule "channel:<name>" with the mapped action; if it is also a DM or a
\* mention, the higher-priority rule wins.
C8_ChannelOverride ==
    (Filtered /\ FromHuman /\ MatchingEntries(config, msg.text) = {}
        /\ msg.channel \in DOMAIN config.channels)
        => /\ pc = "filtered"
           /\ result =
                IF msg.is_mention
                THEN FilterResult(config.rules["mentions"], <<"mentions">>)
                ELSE IF msg.is_dm
                     THEN FilterResult(config.rules["dms"], <<"dms">>)
                     ELSE FilterResult(config.channels[msg.channel],
                                       <<"channel:", msg.channel>>)

\* C8 on the configurations whose regular expressions all compile
C8_OnCompilingConfigs == AllRegexesCompile(config) => C8_ChannelOverride

\* C9: default is terminal and always matches. A message that none of self,
\* bots, keywords, mentions, dms matches and whose channel is not a key of the
\* channel mapping gets rule "default" with action rules["default"], and
\* pre_filter raises no error.
C9_DefaultTerminal ==
    (Filtered /\ FromHuman /\ MatchingEntries(config, msg.text) = {}
        /\ ~msg.is_mention /\ ~msg.is_dm
        /\ msg.channel \notin DOMAIN config.channels)
        => /\ pc = "filtered"
           /\ raised = NoExc
           /\ result = FilterResult(config.rules["default"], <<"default">>)

\* C9 on the configurations whose regular expressions all compile
C9_OnCompilingConfigs == AllRegexesCompile(config) => C9_DefaultTerminal

\* C10: the threshold comparison is inclusive. On the CLASSIFY path
\* handle_message calls notify, with the classification's urgency and
\* reason, if and only if classification.urgency >= urgency_threshold.
C10_ThresholdInclusive ==
    (pc = "done" /\ Classified)
        => IF classification.urgency >= config.urgency_threshold
           THEN /\ Len(notifications) = 1
                /\ notifications[1].urgency = Score(classification.urgency)
                /\ notifications[1].reason = classification.reason
           ELSE notifications = <<>>

\* the model answered an urgency equal to the threshold, and notify was called
C10_Witness ==
    /\ pc = "done"
    /\ Classified
    /\ response.exc = NoExc
    /\ response.urgency = [t |-> "int", v |-> config.urgency_threshold]
    /\ classification.urgency = config.urgency_threshold
    /\ config.urgency_threshold = 4
    /\ Len(notifications) = 1

\* classify has returned a Classification for this message
HasClassification == Classified /\ classification # None

\* C11: fallback classification. When the HTTP request fails with a
\* connection error or a timeout, classify returns a Classification whose
\* urgency equals config.urgency_threshold and whose reason is the fixed
\* "LLM unavailable" text.
C11_FallbackOnConnectionFailure ==
    (Classified /\ response.exc \in {"ConnectionError", "ConnectTimeout", "ReadTimeout"})
        => /\ HasClassification
           /\ classification.urgency = config.urgency_threshold
           /\ classification.reason = FallbackReason

\* a read timeout under threshold 5 was answered with the fallback
C11_Witness ==
    /\ HasClassification
    /\ response.exc = "ReadTimeout"
    /\ config.urgency_threshold = 5
    /\ classification = Classification(5, FallbackReason)

\* the model's integer urgency brought into 1..5
Clamped(n) == IF n < 1 THEN 1 ELSE IF n > 5 THEN 5 ELSE n

\* a 2xx response whose embedded JSON holds an integer urgency and a reason
IntegerAnswer(resp) ==
    /\ resp.exc = NoExc
    /\ resp.status < 400
    /\ resp.shape = "content_object"
    /\ resp.urgency.t = "int"
    /\ resp.reason # "missing"

\* C12: urgency range. Every Classification classify returns has urgency in
\* 1..5 (the configured threshold being in 1..5); on a successful response
\* the urgency is the model's urgency clamped: below 1 gives 1, above 5 gives
\* 5, and 1..5 pass through unchanged.
C12_UrgencyRange ==
    HasClassification
        => /\ classification.urgency \in 1..5
           /\ IntegerAnswer(response)
                 => classification.urgency = Clamped(response.urgency.v)

\* the model answered 7 and the Classification holds 5
C12_Witness ==
    /\ HasClassification
    /\ IntegerAnswer(response)
    /\ response.urgency.v = 7
    /\ classification.urgency = 5

\* a 2xx response that does not have the shape of RESPONSE_SCHEMA: a key is
\* missing, the embedded content is not a JSON object, urgency is not an
\* integer or reason is not a string
StructurallyInvalid(resp) ==
    /\ resp.exc = NoExc
    /\ resp.status < 400
    /\ \/ resp.shape # "content_object"
       \/ resp.urgency.t # "int"
       \/ resp.reason # "str"

\* C13: a structurally invalid classifier response yields the fallback
\* classification: urgency = configured threshold with the "LLM unavailable"
\* reason, never a classification derived from the response.
C13_InvalidResponseFallsBack ==
    (Classified /\ StructurallyInvalid(response))
        => /\ HasClassification
           /\ classification = _fallback(config)

\* pre_filter has returned a decision for this message
Decided == result # None

\* C14: skip ends the pipeline. When pre_filter returns SKIP, handle_message
\* calls neither classify nor notify: no HTTP request, no notification.
C14_SkipEndsPipeline ==
    (Decided /\ result.action = SKIP)
        => /\ calls = <<"parse_event", "pre_filter">>
           /\ http_requests = 0
           /\ notifications = <<>>
           /\ pc \in {"filtered", "done"}

\* handle_message returned on a SKIP decision
C14_Witness ==
    /\ pc = "done"
    /\ msg # None
    /\ result # None
    /\ result.action = SKIP
    /\ notifications = <<>>

\* C15: force-notify path. When pre_filter returns FORCE_NOTIFY,
\* handle_message calls notify exactly once, with a reason that contains the
\* matched rule identifier and with no urgency score, never calls classify,
\* and the notification has urgency level "normal".
C15_ForceNotify ==
    (Decided /\ result.action = FORCE_NOTIFY)
        => /\ http_requests = 0
           /\ "classify" \notin {calls[i] : i \in DOMAIN calls}
           /\ pc = "done"
                => /\ calls = <<"parse_event", "pre_filter", "notify">>
                   /\ Len(notifications) = 1
                   /\ notifications[1].reason = <<"Matched rule: ">> \o result.rule
                   /\ notifications[1].urgency = NoScore
                   /\ notifications[1].level = "normal"

\* a direct message was force-notified under rule "dms"
C15_Witness ==
    /\ pc = "done"
    /\ result # None
    /\ result = FilterResult(FORCE_NOTIFY, <<"dms">>)
    /\ Len(notifications) = 1
    /\ notifications[1].level = "normal"

\* the number of calls of f made by this run of handle_message
CallsOf(f) == Cardinality({i \in DOMAIN calls : calls[i] = f})

\* C16: at most one notification per message. In every run of
\* handle_message the notification sink is invoked at most once.
C16_AtMostOneNotification ==
    /\ Len(notifications) <= 1
    /\ CallsOf("notify") = Len(notifications)

\* a run that classified and notified once has ended
C16_Witness ==
    /\ pc = "done"
    /\ Classified
    /\ Len(notifications) = 1
    /\ CallsOf("notify") = 1

\* C17: unparseable input short-circuits. When parse_event returns None,
\* handle_message returns without invoking pre_filter, classify or notify.
C17_NoneShortCircuits ==
    (pc # "idle" /\ msg = None)
        => /\ pc = "done"
           /\ calls = <<"parse_event">>
           /\ result = None
           /\ classification = None
           /\ http_requests = 0
           /\ notifications = <<>>

\* parse_event returned None and handle_message has returned
C17_Witness ==
    /\ pc = "done"
    /\ msg = None
    /\ calls = <<"parse_event">>

\* C18: no retries. Each call of classify issues exactly one HTTP request,
\* whether it succeeds, times out or fails, and handle_message calls
\* classify at most once per message: a single failure is terminal.
C18_NoRetries ==
    /\ CallsOf("classify") <= 1
    /\ http_requests = CallsOf("classify")

\* the one request timed out and handle_message ended with one request made
C18_Witness ==
    /\ pc = "done"
    /\ Classified
    /\ response.exc = "ReadTimeout"
    /\ http_requests = 1
    /\ CallsOf("classify") = 1

\* load_config returned a Config
Loaded == config # None

\* C19: a keyword entry whose "regex:" pattern does not compile is rejected
\* by load_config as a configuration error; consequently pre_filter never
\* fails at runtime with a regex error on a configuration that load_config
\* accepted.
C19_RegexRejectedAtLoad ==
    /\ Loaded => AllRegexesCompile(config)
    /\ raised # "re.error"

\* the document holds an action, under a rule key, a channel or a keyword
\* entry, that is not one of skip, classify, force_notify
HasInvalidAction(doc) ==
    \/ \E k \in DOMAIN doc.rules.m \cap VALID_RULE_KEYS : doc.rules.m[k] \notin FilterAction
    \/ \E k \in DOMAIN doc.channels.m : doc.channels.m[k] \notin FilterAction
    \/ \E i \in DOMAIN doc.keywords.l :
          /\ doc.keywords.l[i].dict
          /\ "action" \in doc.keywords.l[i].keys
          /\ doc.keywords.l[i].action \notin FilterAction

\* an integer in 1..5
ValidThreshold(x) == x.t \in {"int", "bool"} /\ x.v \in 1..5

\* a positive number; nan is not positive
PositiveNumber(x) == x.t \in {"int", "bool", "float"} /\ x.v > 0

\* a keyword entry lacks "pattern" or "action", or its pattern is not a string
HasMalformedKeyword(doc) ==
    \E i \in DOMAIN doc.keywords.l :
        /\ doc.keywords.l[i].dict
        /\ \/ "pattern" \notin doc.keywords.l[i].keys
           \/ "action" \notin doc.keywords.l[i].keys
           \/ doc.keywords.l[i].pattern.t # "str"

\* the document breaks one of the validation rules
InvalidDocument(doc) ==
    /\ doc.kind = "mapping"
    /\ \/ HasInvalidAction(doc)
       \/ doc.urgency_threshold # Absent /\ ~ValidThreshold(doc.urgency_threshold)
       \/ doc.ollama_timeout # Absent /\ ~PositiveNumber(doc.ollama_timeout)
       \/ HasMalformedKeyword(doc)

\* every value of the Config is valid
ValidConfig(c) ==
    /\ c.urgency_threshold \in 1..5
    /\ PositiveNumber(c.ollama_timeout)
    /\ \A k \in DOMAIN c.rules : c.rules[k] \in FilterAction
    /\ \A k \in DOMAIN c.channels : c.channels[k] \in FilterAction
    /\ \A i \in DOMAIN c.keywords : c.keywords[i].action \in FilterAction

\* C20: load-time validation. load_config raises a validation error, and
\* returns no Config, when a rule, channel or keyword action is not one of
\* skip/classify/force_notify, when urgency_threshold is not an integer in
\* 1..5, when ollama_timeout is not a positive number, or when a keyword
\* entry lacks "pattern" or "action" or has a non-string pattern; hence every
\* Config it returns has threshold in 1..5, timeout > 0 and only valid
\* actions.
C20_LoadTimeValidation ==
    /\ (pc # "start" /\ InvalidDocument(raw))
          => (pc = "exit" /\ raised = "ValueError" /\ ~Loaded)
    /\ Loaded => ValidConfig(config)

\* C20 on the documents whose ollama_timeout is not nan
C20_OnOrderedTimeouts == raw.ollama_timeout # YNaN => C20_LoadTimeValidation

\* load_config has failed with an error that main() handles
ConfigError == raised \in {"FileNotFoundError", "ValueError"} /\ ~Loaded

\* C21: configuration errors are fatal before anything starts. When
\* load_config fails (file not found or validation error) main exits with
\* status 1; the listener is never constructed, no handler is registered and
\* listener.start is never called.
C21_ConfigErrorsFatal ==
    ConfigError
        => /\ pc = "exit"
           /\ startup = <<"load_config", "sys.exit(1)">>
           /\ bot_user_id = None
           /\ calls = <<>>

\* a document with an out-of-range threshold ended main() with exit status 1
C21_Witness ==
    /\ pc = "exit"
    /\ raw.kind = "mapping"
    /\ raw.urgency_threshold = YInt(6)
    /\ raised = "ValueError"
    /\ startup = <<"load_config", "sys.exit(1)">>

\* the document without its unknown top-level keys and without the keys
\* under rules that are no rule keys
WithoutUnknownKeys(doc) ==
    [doc EXCEPT !.unknown_keys = {},
                !.rules.m = [k \in DOMAIN doc.rules.m \cap VALID_RULE_KEYS |->
                                doc.rules.m[k]]]

\* the document holds a key that load_config does not know
HasUnknownKeys(doc) ==
    doc.unknown_keys # {} \/ DOMAIN doc.rules.m \ VALID_RULE_KEYS # {}

\* C22: unknown keys are ignored, not rejected. Adding unknown top-level
\* keys, or unknown keys under rules, to an otherwise valid configuration
\* file makes load_config succeed and return exactly the Config it returns
\* without those keys.
C22_UnknownKeysIgnored ==
    (pc \notin {"start", "crashed"} /\ HasUnknownKeys(raw)
        /\ load_config(WithoutUnknownKeys(raw)).raised = NoExc)
        => /\ Loaded
           /\ raised # "ValueError"
           /\ config = load_config(WithoutUnknownKeys(raw)).value

\* a document with unknown top-level keys and an unknown key under rules,
\* beside an override of the rule dms, was loaded
C22_Witness ==
    /\ pc = "idle"
    /\ Loaded
    /\ raw.unknown_keys = {"colour", "debug"}
    /\ DOMAIN raw.rules.m = {"dms", "archive"}
    /\ config.rules["dms"] = SKIP
    /\ config = load_config(WithoutUnknownKeys(raw)).value

\* the identifiers the listener remembers
Remembered == {seen_events[i] : i \in DOMAIN seen_events}

\* this step is a call of parse_event
ParseEventCalled == pc = "idle" /\ pc' # "idle"

\* C23: deduplication of redelivered events. When an event carries an
\* identifier (client_msg_id, else ts) that is among the remembered
\* identifiers, parse_event returns None, so the redelivery yields no second
\* message and no notification; an event whose identifier is not remembered
\* is not dropped as a duplicate.
C23_Deduplication ==
    /\ [][(ParseEventCalled /\ event_id'.present)
            => IF event_id'.v \in Remembered
               THEN msg' = None /\ parse_log' = "duplicate" /\ UNCHANGED listener
               ELSE parse_log' # "duplicate"]_vars
    /\ [](parse_log = "duplicate"
            => calls = <<"parse_event">> /\ notifications = <<>> /\ pc = "done")

\* an event was redelivered while its identifier was remembered, and dropped
C23_Witness ==
    /\ pc = "done"
    /\ event_id = Id(<<1>>)
    /\ seen_events = <<(<<1>>)>>
    /\ parse_log = "duplicate"
    /\ msg = None

\* C24: identifier invariant. Every SlackMessage parse_event returns, hence
\* every message that reaches pre_filter, has a non-empty channel_id and a
\* non-empty sender_id, whatever the event holds under user, bot_id and
\* subtype; events that lack either identifier are dropped.
C24_IdentifiersPresent ==
    msg # None
        => /\ msg.channel_id \notin {"", Missing, JsonNull}
           /\ msg.sender_id \notin {"", Missing, JsonNull}

\* the level the spec gives for an urgency score, or for none
LevelFor(urgency) ==
    CASE ~urgency.given -> "normal"
      [] urgency.given /\ urgency.v \in {1, 2} -> "low"
      [] urgency.given /\ urgency.v = 3 -> "normal"
      [] urgency.given /\ urgency.v \in {4, 5} -> "critical"

\* C25: notification urgency mapping. notify emits level "low" for urgency
\* 1 and 2, "normal" for 3, "critical" for 4 and 5, and "normal" when no
\* urgency is given: one of the three levels for every urgency in 1..5 or
\* absent.
C25_UrgencyMapping ==
    \A i \in DOMAIN notifications :
        /\ ~notifications[i].urgency.given \/ notifications[i].urgency.v \in 1..5
        /\ notifications[i].level = LevelFor(notifications[i].urgency)
        /\ notifications[i].level \in {"low", "normal", "critical"}

\* a message scored 4 was notified at level critical
C25_Witness ==
    /\ pc = "done"
    /\ Len(notifications) = 1
    /\ notifications[1].urgency = Score(4)
    /\ notifications[1].level = "critical"

\* C26: body truncation. The notification body is the first min(200, length)
\* characters of the message text, then the separator (a blank line), then
\* the reason; a text of 200 characters or fewer appears whole and no
\* character beyond position 200 appears in the message portion.
C26_BodyTruncation ==
    \A i \in DOMAIN notifications :
        LET body == notifications[i].body
            length == Len(msg.text)
            kept == IF length < 200 THEN length ELSE 200
        IN /\ Len(body) = kept + 1 + Len(notifications[i].reason)
           /\ \A j \in 1..kept : body[j] = msg.text[j]
           /\ body[kept + 1] = "\n\n"
           /\ SubSeq(body, kept + 2, Len(body)) = notifications[i].reason
           /\ kept <= 200

\* a text of 300 characters was notified with a body holding 200 of them
C26_Witness ==
    /\ pc = "done"
    /\ Len(notifications) = 1
    /\ Len(msg.text) = 300
    /\ Len(notifications[1].body) = 201 + Len(notifications[1].reason)

\* str.upper() on one character; "sz" is the letter U+00DF, whose upper
\* case is the two letters "SS"
UpperChar(c) ==
    IF c = "d" THEN <<"D">>
    ELSE IF c = "s" THEN <<"S">>
    ELSE IF c = "sz" THEN <<"S", "S">>
    ELSE <<c>>

\* str.upper()
RECURSIVE Upper(_)
Upper(s) == IF s = <<>> THEN <<>> ELSE UpperChar(Head(s)) \o Upper(Tail(s))

\* s in upper case and in lower case
CaseVariants(s) == {Upper(s), Lower(s)}

\* a keyword pattern with the case of its letters changed to those of v: the
\* whole of a plain pattern, the expression of a "regex:" pattern
PatternVariants(pattern) ==
    IF IsRegexPattern(pattern)
    THEN {<<"regex:">> \o v : v \in CaseVariants(Tail(pattern))}
    ELSE CaseVariants(pattern)

\* the configurations that differ from cfg in the letter case of one pattern
ConfigVariants(cfg) ==
    UNION {{[cfg EXCEPT !.keywords[i].pattern = p] :
                p \in PatternVariants(cfg.keywords[i].pattern)} :
           i \in DOMAIN cfg.keywords}

\* the outcome selects what the run of pre_filter on msg selected: the same
\* action under the same rule, the rule's pattern compared without case
SameSelection(outcome) ==
    IF pc = "raised"
    THEN outcome.raised = raised
    ELSE /\ outcome.raised = NoExc
         /\ outcome.value.action = result.action
         /\ Lower(outcome.value.rule) = Lower(result.rule)

\* C27: keyword matching is case-insensitive for both forms. Changing the
\* letter case of the message text, of a plain pattern, or of the literal
\* letters of a regex pattern never changes which keyword entry pre_filter
\* selects.
C27_CaseInsensitive ==
    Filtered =>
        /\ \A t \in CaseVariants(msg.text) :
              SameSelection(pre_filter([msg EXCEPT !.text = t], config, bot_user_id))
        /\ \A cfg \in ConfigVariants(config) :
              SameSelection(pre_filter(msg, cfg, bot_user_id))

\* the letter U+00DF occurs neither in the text nor in a pattern
WithoutSharpS ==
    /\ \A j \in DOMAIN msg.text : msg.text[j] # "sz"
    /\ \A i \in DOMAIN config.keywords :
          \A j \in DOMAIN config.keywords[i].pattern :
              config.keywords[i].pattern[j] # "sz"

\* C27 on the letters whose upper and lower case are one character each
C27_OnSingleCharacterCases == (Filtered /\ WithoutSharpS) => C27_CaseInsensitive

\* the fixed ordered rule list for a message: for every entry, whether its
\* predicate holds, its configured action and its rule identifier
RuleList(m, cfg, bot) ==
    <<[holds |-> m.sender_id = bot, action |-> cfg.rules["self"], rule |-> <<"self">>],
      [holds |-> m.is_bot, action |-> cfg.rules["bots"], rule |-> <<"bots">>]>>
    \o [i \in 1..Len(cfg.keywords) |->
          [holds |-> EntryMatches(cfg.keywords[i], m.text),
           action |-> cfg.keywords[i].action,
           rule |-> <<"keyword:">> \o cfg.keywords[i].pattern]]
    \o <<[holds |-> m.is_mention, action |-> cfg.rules["mentions"], rule |-> <<"mentions">>],
         [holds |-> m.is_dm, action |-> cfg.rules["dms"], rule |-> <<"dms">>],
         [holds |-> m.channel \in DOMAIN cfg.channels,
          action |-> IF m.channel \in DOMAIN cfg.channels
                     THEN cfg.channels[m.channel] ELSE None,
          rule |-> <<"channel:", m.channel>>],
         [holds |-> TRUE, action |-> cfg.rules["default"], rule |-> <<"default">>]>>

\* the reference evaluator: the first entry of the list whose predicate holds
Reference(m, cfg, bot) ==
    LET list == RuleList(m, cfg, bot)
        first == CHOOSE i \in DOMAIN list :
                    list[i].holds /\ \A j \in 1..(i - 1) : ~list[j].holds
    IN FilterResult(list[first].action, list[first].rule)

\* C28: first-match equivalence. For every message, configuration and own
\* identity, pre_filter's result equals that of the reference evaluator that
\* walks [self, bots, keyword[0..n-1], mentions, dms, channel, default] and
\* returns the first entry whose predicate holds, with its configured action
\* and rule identifier; exactly one rule is attributed to each message.
C28_FirstMatchEquivalence ==
    Filtered => /\ pc = "filtered"
                /\ result = Reference(msg, config, bot_user_id)

\* C28 on the configurations whose regular expressions all compile
C28_OnCompilingConfigs == AllRegexesCompile(config) => C28_FirstMatchEquivalence

\* what a run that has ended has sent to the notification sink, as a function
\* of its message, the configuration and the classifier's outcome alone
NotificationsOfRun ==
    IF msg = None \/ result = None \/ result.action \notin {CLASSIFY, FORCE_NOTIFY}
           \/ (result.action = CLASSIFY /\ classification = None)
    THEN <<>>
    ELSE IF result.action = FORCE_NOTIFY
         THEN <<notify(msg, <<"Matched rule: ">> \o result.rule, NoScore, config)>>
         ELSE IF classification.urgency >= config.urgency_threshold
              THEN <<notify(msg, classification.reason,
                            Score(classification.urgency), config)>>
              ELSE <<>>

Rank(f) ==
    CASE f = "parse_event" -> 1
      [] f = "pre_filter" -> 2
      [] f = "classify" -> 3
      [] f = "notify" -> 4

\* C30: pipeline ordering. Within one run of handle_message the steps occur
\* only in the order parse_event, pre_filter, classify, notify; classify is
\* invoked if and only if the decision's action is CLASSIFY, and on the
\* CLASSIFY path notify is never invoked before classify has returned.
C30_PipelineOrdering ==
    /\ \A i, j \in DOMAIN calls : i < j => Rank(calls[i]) < Rank(calls[j])
    /\ calls # <<>> => calls[1] = "parse_event"
    /\ CallsOf("classify") > 0 => Decided /\ result.action = CLASSIFY
    /\ (Decided /\ result.action = CLASSIFY /\ pc # "filtered") => CallsOf("classify") = 1
    /\ (Decided /\ result.action = CLASSIFY /\ CallsOf("notify") > 0)
          => /\ classification # None
             /\ calls = <<"parse_event", "pre_filter", "classify", "notify">>

\* a run that went through the four steps
C30_Witness ==
    /\ pc = "done"
    /\ result # None
    /\ result.action = CLASSIFY
    /\ classification # None
    /\ calls = <<"parse_event", "pre_filter", "classify", "notify">>
    /\ notifications # <<>>

\* notify has run its command and the command has come back
CommandCameBack == Ended /\ command # None

\* C31: the orchestrator never fails for well-formed input. For every parsed
\* message and every decision handle_message returns normally even when the
\* notification command fails (it exits non-zero or cannot be executed): no
\* failure of the notification sink leaves notify or handle_message.
C31_SinkFailureAbsorbed ==
    CommandCameBack => (pc = "done" /\ raised = NoExc)

\* C31 for the commands that were executed, whatever their exit status
C31_OnExecutedCommands ==
    (CommandCameBack /\ command.exc = NoExc) => C31_SinkFailureAbsorbed

\* notify waits for a notify-send command that never exits
Blocked == pc = "notifying" /\ ~command.exits

\* C32: every handle_message run terminates. Each inbound message is
\* processed to completion (filter, optional classify, optional notify); the
\* classifier's HTTP call is the only step that can block and it is bounded
\* by config.ollama_timeout; no other step, in particular the notification
\* command, can block the run indefinitely.
C32_RunTerminates == (pc = "parsed") ~> Ended

\* C32 up to the notification command: a run ends or waits for the command
C32_UpToTheCommand == (pc = "parsed") ~> (Ended \/ Blocked)

\* the rules the file gives: the entries of its rules mapping, if it has one
RulesOfFile ==
    IF raw.kind = "mapping" /\ raw.rules.t = "map" THEN raw.rules.m ELSE NoMap

\* the default action of rule k
DefaultOf(k) ==
    CASE k \in {"self", "bots"} -> "skip"
      [] k \in {"mentions", "dms"} -> "force_notify"
      [] k = "default" -> "classify"

\* C33: rule table completeness. Every Config returned by load_config has a
\* rules mapping with exactly the keys self, bots, mentions, dms, default,
\* each mapped to a valid action; a key absent from the file keeps its
\* default and overriding one rule leaves the other four unchanged.
C33_RuleTableComplete ==
    Loaded =>
        /\ DOMAIN config.rules = {"self", "bots", "mentions", "dms", "default"}
        /\ \A k \in DOMAIN config.rules :
              /\ config.rules[k] \in {"skip", "classify", "force_notify"}
              /\ config.rules[k] =
                    IF k \in DOMAIN RulesOfFile THEN RulesOfFile[k] ELSE DefaultOf(k)

\* a file that overrides dms alone was loaded and a message was filtered
C33_Witness ==
    /\ pc = "filtered"
    /\ Loaded
    /\ DOMAIN RulesOfFile = {"dms"}
    /\ config.rules["dms"] = CLASSIFY
    /\ config.rules["mentions"] = FORCE_NOTIFY
    /\ config.rules["default"] = CLASSIFY

\* the deque is full
WindowFull == Len(seen_events) = MaxSeen

DroppedAsInvalid == parse_log \in {"ignored subtype", "missing channel", "missing user"}

\* C35: an event identifier is recorded as seen before the event is
\* validated. When parse_event drops an event for an ignored subtype, a
\* missing channel or a missing user, its identifier is nevertheless
\* remembered, so a later event with the same identifier is dropped as a
\* duplicate although no message was ever produced for that identifier.
C35_RecordedBeforeValidation ==
    /\ [](DroppedAsInvalid
            => /\ msg = None
               /\ event_id.present
               /\ seen_events # <<>>
               /\ seen_events[Len(seen_events)] = event_id.v)
    /\ [][(DroppedAsInvalid /\ pc' = "idle")
            => seen_events' = seen_events /\ event_id.v \in Remembered']_vars
    /\ [][(ParseEventCalled /\ event_id'.present /\ event_id'.v \in Remembered)
            => msg' = None /\ parse_log' = "duplicate"]_vars

\* an event is dropped as a duplicate by a listener that has never produced
\* a message (it has resolved no channel and no user)
C35_Witness ==
    /\ parse_log = "duplicate"
    /\ msg = None
    /\ event_id.v \in Remembered
    /\ channel_cache = NoNames
    /\ user_cache = NoNames

\* C36: deduplication holds under concurrent delivery. If two parse_event
\* calls for the same event identifier run concurrently on the shared
\* listener, at most one of them returns a message, in every interleaving of
\* the membership check and the append.
C36_AtMostOneMessage ==
    \A t1, t2 \in Threads :
        (/\ t1 # t2
         /\ threads[t1].event_id = threads[t2].event_id
         /\ threads[t1].returned = "message")
            => threads[t2].returned # "message"

\* the cache that the lookup `api` fills
CacheOf(api) == IF api = "conversations_info" THEN channel_cache ELSE user_cache

\* every entry of cache is an entry of later
Kept(cache, later) ==
    \A k \in DOMAIN cache : k \in DOMAIN later /\ later[k] = cache[k]

\* C37: name resolution is performed at most once per identifier. Across any
\* sequence of parse_event calls the platform lookup for a channel id
\* (conversations_info) and for a user id (users_info) is called at most
\* once; the first result, including the raw-id fallback of a failed lookup,
\* is cached and returned for every later event with that id, and cache
\* entries are never evicted or changed.
C37_ResolvedOnce ==
    /\ [][ParseEventCalled
            => \A l \in lookups' :
                  /\ l[1] \in {"conversations_info", "users_info"}
                  /\ l[2] \notin DOMAIN CacheOf(l[1])
                  /\ l[2] \in DOMAIN CacheOf(l[1])']_vars
    /\ [][Kept(channel_cache, channel_cache') /\ Kept(user_cache, user_cache')]_vars
    /\ [][(ParseEventCalled /\ msg' # None)
            => /\ msg'.channel_id \in DOMAIN channel_cache
                  => (msg'.channel = channel_cache[msg'.channel_id]
                      /\ \A l \in lookups' : l[2] # msg'.channel_id \/ l[1] = "users_info")
               /\ msg'.sender_id \in DOMAIN user_cache
                  => (msg'.sender = user_cache[msg'.sender_id]
                      /\ \A l \in lookups' : l[2] # msg'.sender_id \/ l[1] = "conversations_info")
               /\ msg'.channel = channel_cache'[msg'.channel_id]
               /\ msg'.sender = user_cache'[msg'.sender_id]]_vars

\* a message is returned with the raw ids that two failed lookups left in the
\* caches, without a lookup
C37_Witness ==
    /\ pc = "parsed"
    /\ msg # None
    /\ msg.channel_id = "C1"
    /\ msg.channel = "C1"
    /\ msg.sender_id = "U_ALICE"
    /\ msg.sender = "U_ALICE"
    /\ lookups = {}

\* the sender id of msg is not the id of a user: parse_event took it from
\* bot_id, or took "unknown_bot", for an event without a user field
SenderSubstituted == msg # None /\ msg.sender_id \notin Users

CalledBefore(f, i) == \E j \in 1..(i - 1) : startup[j] = f

\* C39: graceful shutdown. Once main has installed its signal handlers,
\* every delivery of SIGTERM or SIGINT leads to listener.close() being
\* called, and the handlers are installed before listener.start() begins
\* blocking.
C39_GracefulShutdown ==
    \A i \in DOMAIN startup :
        /\ (startup[i] \in {"SIGTERM", "SIGINT"} /\ CalledBefore("signal.signal", i))
              => (i < Len(startup) /\ startup[i + 1] = "listener.close")
        /\ startup[i] = "listener.start" => CalledBefore("signal.signal", i)
        /\ startup[i] = "listener.close" => (i > 1 /\ startup[i - 1] \in {"SIGTERM", "SIGINT"})

\* both signals were delivered to the started program, and each closed the
\* listener
C39_Witness ==
    /\ pc = "idle"
    /\ startup = Started \o <<"SIGTERM", "listener.close", "SIGINT", "listener.close">>

====
